---- MODULE Spec2Model ----
(***************************************************************************)
(* Model of src/scene.py: the module-level script that sizes the entries   *)
(* of DATA, lays the spheres out along x, creates the host objects and     *)
(* keyframes the camera (animate_camera).                                  *)
(*                                                                         *)
(* Python floats are modelled as exact rationals <<numerator,              *)
(* denominator>> in lowest terms with a positive denominator; float        *)
(* rounding is not modelled.  Rotations, materials, light energies and     *)
(* mesh resolution are written by the code but read by nothing in it and   *)
(* are left out of the object records.                                     *)
(***************************************************************************)
EXTENDS Integers, Sequences, FiniteSets, TLC

\* ---- bounds of the model ----
MaxItems == 3
MaxValue == 3
MaxFrames == 2

\* ---- program constants ----
SCALE_FACTOR == 2
FRAME_PAUSE == 24
FRAME_MOVE == 36

VARIABLES
  DATA,            \* the dataset: values in insertion order (item i is named i)
  pause_frames,    \* the tunable FRAME_PAUSE
  move_frames,     \* the tunable FRAME_MOVE
  pc,              \* position of the script / of animate_camera
  error,           \* the exception that ended the run, "" if none
  cleared,         \* clear_scene() has run
  max_value,       \* module variable max_value (0 before it is assigned)
  x_position,      \* module variable x_position (rational)
  scale,           \* loop variable scale (rational)
  i,               \* index into DATA.items() of the layout loop
  spheres,         \* module variable spheres
  objects,         \* objects created in the host scene, in creation order
  camera,          \* the camera object
  current_frame,   \* local current_frame of animate_camera
  k,               \* index into spheres of the loop of animate_camera
  keyframes,       \* camera.keyframe_insert calls, in emission order
  frame_end,       \* bpy.context.scene.frame_end as written by the run
  frame_end_set    \* the run has written scene.frame_end

vars == <<DATA, pause_frames, move_frames, pc, error, cleared, max_value,
          x_position, scale, i, spheres, objects, camera, current_frame, k,
          keyframes, frame_end, frame_end_set>>

\* ---- rational arithmetic standing for Python float arithmetic ----
Abs(n) == IF n < 0 THEN -n ELSE n

RECURSIVE GCD(_, _)
GCD(a, b) == IF b = 0 THEN a ELSE GCD(b, a % b)

LCM(a, b) == (a \div GCD(a, b)) * b

Rat(n, d) ==
  LET g == GCD(Abs(n), d) IN <<n \div g, d \div g>>

Zero == <<0, 1>>

RAdd(a, b) ==
  LET d == LCM(a[2], b[2]) IN Rat(a[1] * (d \div a[2]) + b[1] * (d \div b[2]), d)

RNeg(a) == <<-a[1], a[2]>>

RSub(a, b) == RAdd(a, RNeg(b))

RMul(a, b) ==
  LET g1 == GCD(Abs(a[1]), b[2])
      g2 == GCD(Abs(b[1]), a[2])
  IN  Rat((a[1] \div g1) * (b[1] \div g2), (a[2] \div g2) * (b[2] \div g1))

\* a / b for b > 0
RDiv(a, b) == RMul(a, <<b[2], b[1]>>)

RLt(a, b) ==
  LET d == LCM(a[2], b[2]) IN a[1] * (d \div a[2]) < b[1] * (d \div b[2])

RLeq(a, b) == a = b \/ RLt(a, b)

\* ---- inputs ----
BoundedSeq(S, n) == UNION {[1..m -> S] : m \in 0..n}

ActualDATA == <<2301, 2754, 2841, 5033, 5058, 8977, 12174>>

Datasets == BoundedSeq(1..MaxValue, MaxItems) \cup {<<10, 20, 5>>, ActualDATA}

PauseSet == (-1..MaxFrames) \cup {FRAME_PAUSE}

MoveSet == (-1..MaxFrames) \cup {FRAME_MOVE}

AspectSet == {<<1, 1>>, <<16, 9>>}

NoCamera == [exists |-> FALSE, location |-> <<Zero, Zero, Zero>>, animation_data |-> FALSE]

\* ---- pure pieces of the script ----
RECURSIVE MaxOf(_)
MaxOf(s) ==
  IF Len(s) = 1 THEN s[1]
  ELSE LET m == MaxOf(Tail(s)) IN IF s[1] >= m THEN s[1] ELSE m

\* the scale without the SCALE_FACTOR multiplication
ScaleOfNoFactor(value, maxv) == Rat(value, maxv)

ScaleOf(value, maxv) == RMul(Rat(value, maxv), <<SCALE_FACTOR, 1>>)

\* the previous radius added once
NextXOnce(x, previous_radius, s) == RAdd(RAdd(x, previous_radius), s)

\* the previous radius left out
NextXNoPrevious(x, previous_radius, s) == RAdd(x, s)

NextX(x, previous_radius, s) == RAdd(RAdd(RAdd(x, previous_radius), s), previous_radius)

\* a loop that stops one element early
HasNextShort(idx, seq) == idx < Len(seq)

HasNext(idx, seq) == idx <= Len(seq)

\* the camera at one radius, not ten, in front of the sphere
CameraLocationNear(sphere) ==
  <<sphere.location[1], RNeg(sphere.scale), RMul(sphere.scale, <<13, 10>>)>>

CameraLocation(sphere) ==
  <<sphere.location[1],
    RMul(RNeg(sphere.scale), <<10, 1>>),
    RMul(sphere.scale, <<13, 10>>)>>

\* the hold phase not added to the frame counter
HoldEndNoPause(f, pause) == f

HoldEnd(f, pause) == f + pause

\* the move phase not added to the frame counter
MoveEndNoMove(f, move) == f

MoveEnd(f, move) == f + move

Fail(e) ==
  /\ pc' = "failed"
  /\ error' = e

\* ---- the script ----
Init ==
  /\ DATA \in Datasets
  /\ pause_frames \in PauseSet
  /\ move_frames \in MoveSet
  /\ pc = "clear"
  /\ error = ""
  /\ cleared = FALSE
  /\ max_value = 0
  /\ x_position = Zero
  /\ scale = Zero
  /\ i = 1
  /\ spheres = <<>>
  /\ objects = <<>>
  /\ camera = NoCamera
  /\ current_frame = 0
  /\ k = 1
  /\ keyframes = <<>>
  /\ frame_end = 0
  /\ frame_end_set = FALSE

ClearScene ==
  /\ pc = "clear"
  /\ cleared' = TRUE
  /\ pc' = "max"
  /\ UNCHANGED <<DATA, pause_frames, move_frames, error, max_value, x_position,
                 scale, i, spheres, objects, camera, current_frame, k,
                 keyframes, frame_end, frame_end_set>>

\* max(DATA.values(), default=0): an empty dataset does not fail
ComputeMaxDefault ==
  /\ pc = "max"
  /\ max_value' = IF DATA = <<>> THEN 0 ELSE MaxOf(DATA)
  /\ x_position' = Zero
  /\ spheres' = <<>>
  /\ i' = 1
  /\ pc' = "for"
  /\ UNCHANGED <<DATA, pause_frames, move_frames, error, cleared, scale,
                 objects, camera, current_frame, k, keyframes, frame_end,
                 frame_end_set>>

\* max(DATA.values()) raises ValueError on an empty dataset
ComputeMax ==
  /\ pc = "max"
  /\ IF DATA = <<>>
       THEN /\ Fail("ValueError")
            /\ UNCHANGED <<max_value, x_position, spheres, i>>
       ELSE /\ max_value' = MaxOf(DATA)
            /\ x_position' = Zero
            /\ spheres' = <<>>
            /\ i' = 1
            /\ pc' = "for"
            /\ UNCHANGED error
  /\ UNCHANGED <<DATA, pause_frames, move_frames, cleared, scale, objects,
                 camera, current_frame, k, keyframes, frame_end, frame_end_set>>

LayoutItem ==
  /\ pc = "for"
  /\ HasNext(i, DATA)
  /\ scale' = ScaleOf(DATA[i], max_value)
  /\ x_position' = IF spheres # <<>>
                     THEN NextX(x_position, spheres[Len(spheres)].scale, scale')
                     ELSE x_position
  /\ pc' = "create"
  /\ UNCHANGED <<DATA, pause_frames, move_frames, error, cleared, max_value, i,
                 spheres, objects, camera, current_frame, k, keyframes,
                 frame_end, frame_end_set>>

CreateItem ==
  /\ pc = "create"
  /\ LET sphere == [name |-> i, scale |-> scale,
                    location |-> <<x_position, Zero, scale>>]
         above == [kind |-> "text", body |-> <<"name", i>>,
                   location |-> <<sphere.location[1], sphere.location[2],
                                  RAdd(sphere.location[3], RMul(scale, <<27, 20>>))>>,
                   size |-> RMul(scale, <<1, 4>>)]
         below == [kind |-> "text", body |-> <<"LoC", DATA[i]>>,
                   location |-> <<sphere.location[1], sphere.location[2],
                                  RSub(sphere.location[3], RMul(scale, <<13, 10>>))>>,
                   size |-> RMul(scale, <<1, 4>>)]
     IN  /\ objects' = objects \o <<[kind |-> "sphere", name |-> i,
                                     location |-> sphere.location,
                                     scale |-> scale], above, below>>
         /\ spheres' = Append(spheres, sphere)
  /\ i' = i + 1
  /\ pc' = "for"
  /\ UNCHANGED <<DATA, pause_frames, move_frames, error, cleared, max_value,
                 x_position, scale, camera, current_frame, k, keyframes,
                 frame_end, frame_end_set>>

\* spheres[0] raises IndexError on an empty list
CreateCamera ==
  /\ pc = "for"
  /\ ~HasNext(i, DATA)
  /\ IF spheres = <<>>
       THEN /\ Fail("IndexError")
            /\ UNCHANGED <<camera, objects>>
       ELSE LET first_radius == spheres[1].scale
                loc == <<RAdd(spheres[1].location[1], first_radius),
                         RMul(RNeg(first_radius), <<10, 1>>),
                         RMul(first_radius, <<13, 10>>)>>
            IN  /\ camera' = [exists |-> TRUE, location |-> loc,
                              animation_data |-> FALSE]
                /\ objects' = Append(objects, [kind |-> "camera", location |-> loc])
                /\ pc' = "lights"
                /\ UNCHANGED error
  /\ UNCHANGED <<DATA, pause_frames, move_frames, cleared, max_value,
                 x_position, scale, i, spheres, current_frame, k, keyframes,
                 frame_end, frame_end_set>>

CreateLights ==
  /\ pc = "lights"
  /\ LET r == spheres[1].scale
         sun1 == [kind |-> "light",
                  location |-> <<RMul(r, <<-10, 1>>), RMul(r, <<-10, 1>>),
                                 RMul(r, <<10, 1>>)>>]
         sun2 == [kind |-> "light",
                  location |-> <<camera.location[1], camera.location[2],
                                 RMul(camera.location[3], <<2, 1>>)>>]
     IN  objects' = objects \o <<sun1, sun2>>
  /\ pc' = "background"
  /\ UNCHANGED <<DATA, pause_frames, move_frames, error, cleared, max_value,
                 x_position, scale, i, spheres, camera, current_frame, k,
                 keyframes, frame_end, frame_end_set>>

\* bpy.data.images.load raises when the image file cannot be read; the
\* aspect ratio of a loaded image is the host's
SetupBackground ==
  /\ pc = "background"
  /\ \E loaded \in BOOLEAN, aspect_ratio \in AspectSet :
       IF ~loaded
         THEN /\ Fail("RuntimeError")
              /\ UNCHANGED objects
         ELSE LET plane_width == RMul(x_position, <<5, 2>>)
                  plane_height == RDiv(plane_width, aspect_ratio)
                  loc == <<RSub(RMul(plane_width, <<1, 2>>), RMul(plane_width, <<1, 10>>)),
                           RMul(x_position, <<3, 1>>),
                           RSub(RMul(plane_height, <<1, 2>>), RMul(plane_height, <<1, 10>>))>>
              IN  /\ objects' = Append(objects,
                                       [kind |-> "plane", location |-> loc,
                                        scale |-> <<plane_width, plane_height, <<1, 1>>>>])
                  /\ pc' = "animate"
                  /\ UNCHANGED error
  /\ UNCHANGED <<DATA, pause_frames, move_frames, cleared, max_value,
                 x_position, scale, i, spheres, camera, current_frame, k,
                 keyframes, frame_end, frame_end_set>>

\* ---- animate_camera ----
AnimateEnter ==
  /\ pc = "animate"
  /\ current_frame' = 1
  /\ k' = 1
  /\ pc' = "anim_for"
  /\ UNCHANGED <<DATA, pause_frames, move_frames, error, cleared, max_value,
                 x_position, scale, i, spheres, objects, camera, keyframes,
                 frame_end, frame_end_set>>

AnimateHold ==
  /\ pc = "anim_for"
  /\ HasNext(k, spheres)
  /\ camera' = [camera EXCEPT !.location = CameraLocation(spheres[k]),
                              !.animation_data = TRUE]
  /\ keyframes' = Append(keyframes, [frame |-> current_frame,
                                     location |-> camera'.location,
                                     interpolation |-> "DEFAULT"])
  /\ pc' = "anim_pause"
  /\ UNCHANGED <<DATA, pause_frames, move_frames, error, cleared, max_value,
                 x_position, scale, i, spheres, objects, current_frame, k,
                 frame_end, frame_end_set>>

AnimatePause ==
  /\ pc = "anim_pause"
  /\ current_frame' = HoldEnd(current_frame, pause_frames)
  /\ keyframes' = Append(keyframes, [frame |-> current_frame',
                                     location |-> camera.location,
                                     interpolation |-> "DEFAULT"])
  /\ pc' = "anim_move"
  /\ UNCHANGED <<DATA, pause_frames, move_frames, error, cleared, max_value,
                 x_position, scale, i, spheres, objects, camera, k,
                 frame_end, frame_end_set>>

AnimateMove ==
  /\ pc = "anim_move"
  /\ current_frame' = MoveEnd(current_frame, move_frames)
  /\ k' = k + 1
  /\ pc' = "anim_for"
  /\ UNCHANGED <<DATA, pause_frames, move_frames, error, cleared, max_value,
                 x_position, scale, i, spheres, objects, camera, keyframes,
                 frame_end, frame_end_set>>

SetFrameEnd ==
  /\ pc = "anim_for"
  /\ ~HasNext(k, spheres)
  /\ frame_end' = current_frame
  /\ frame_end_set' = TRUE
  /\ pc' = "interpolation"
  /\ UNCHANGED <<DATA, pause_frames, move_frames, error, cleared, max_value,
                 x_position, scale, i, spheres, objects, camera, current_frame,
                 k, keyframes>>

\* camera.animation_data is None until a keyframe has been inserted:
\* None.action raises AttributeError
SetInterpolation ==
  /\ pc = "interpolation"
  /\ IF ~camera.animation_data
       THEN /\ Fail("AttributeError")
            /\ UNCHANGED keyframes
       ELSE /\ keyframes' = [j \in 1..Len(keyframes) |->
                               [keyframes[j] EXCEPT !.interpolation = "BEZIER"]]
            /\ pc' = "done"
            /\ UNCHANGED error
  /\ UNCHANGED <<DATA, pause_frames, move_frames, cleared, max_value,
                 x_position, scale, i, spheres, objects, camera, current_frame,
                 k, frame_end, frame_end_set>>

Next ==
  \/ ClearScene
  \/ ComputeMax
  \/ LayoutItem
  \/ CreateItem
  \/ CreateCamera
  \/ CreateLights
  \/ SetupBackground
  \/ AnimateEnter
  \/ AnimateHold
  \/ AnimatePause
  \/ AnimateMove
  \/ SetFrameEnd
  \/ SetInterpolation

Spec == Init /\ [][Next]_vars

TypeOK ==
  /\ pc \in {"clear", "max", "for", "create", "lights", "background", "animate",
             "anim_for", "anim_pause", "anim_move", "interpolation", "done",
             "failed"}
  /\ error \in {"", "ValueError", "IndexError", "RuntimeError", "AttributeError"}

\* ---- animate_camera called on its own, with any list of spheres ----
TargetSet ==
  {[name |-> 0, scale |-> <<r, 1>>, location |-> <<<<x, 1>>, Zero, <<r, 1>>>>] :
     r \in 1..2, x \in 0..1}

InitAnimate ==
  /\ DATA = <<>>
  /\ pause_frames \in PauseSet
  /\ move_frames \in MoveSet
  /\ pc = "animate"
  /\ error = ""
  /\ cleared = FALSE
  /\ max_value = 0
  /\ x_position = Zero
  /\ scale = Zero
  /\ i = 1
  /\ spheres \in BoundedSeq(TargetSet, MaxItems)
  /\ objects = <<>>
  /\ camera \in {[exists |-> TRUE, location |-> <<Zero, Zero, Zero>>,
                  animation_data |-> a] : a \in BOOLEAN}
  /\ current_frame = 0
  /\ k = 1
  /\ keyframes = <<>>
  /\ frame_end = 0
  /\ frame_end_set = FALSE

NextAnimate ==
  \/ AnimateEnter
  \/ AnimateHold
  \/ AnimatePause
  \/ AnimateMove
  \/ SetFrameEnd
  \/ SetInterpolation

SpecAnimate == InitAnimate /\ [][NextAnimate]_vars

\* ---- properties ----
AfterLoop ==
  pc \in {"lights", "background", "animate", "anim_for", "anim_pause",
          "anim_move", "interpolation", "done"}

LastFrame == keyframes[Len(keyframes)].frame

\* number of dataset items whose scale and x position have been computed
LaidOut == IF pc = "create" THEN i ELSE i - 1

IsItemObject(o) == o.kind \in {"sphere", "text"}

IsSphereObject(o) == o.kind = "sphere"

IsRigObject(o) == o.kind \in {"camera", "light", "plane"}

NothingCreated ==
  /\ objects = <<>>
  /\ spheres = <<>>
  /\ ~camera.exists
  /\ keyframes = <<>>
  /\ ~frame_end_set

\* C1: the final frame written to the scene equals the frame of the last
\* keyframe inserted (no move phase is added after the last item); for 3
\* placements with pause 24 and move 36 the final frame is 145.
C1_FinalFrameIsLastKeyframe ==
  frame_end_set =>
    /\ frame_end = LastFrame
    /\ (Len(spheres) = 3 /\ pause_frames = 24 /\ move_frames = 36) => frame_end = 145

KeyframeCount == pc = "done" => Len(keyframes) = 2 * Len(spheres)

StrictlyIncreasingFrames ==
  \A j \in 1..(Len(keyframes) - 1) : keyframes[j].frame < keyframes[j + 1].frame

\* C3 (as stated): for every pause_frames and move_frames, values <= 0
\* included, the timeline holds 2n keyframes with strictly increasing frames.
C3_AsStated == KeyframeCount /\ StrictlyIncreasingFrames

\* C3 (amended): for pause_frames > 0, and move_frames > 0 when there is more
\* than one placement, the timeline holds 2n keyframes with strictly
\* increasing frames.
C3_IncreasingWhenPositive ==
  (pause_frames > 0 /\ (Len(spheres) = 1 \/ move_frames > 0)) =>
    KeyframeCount /\ StrictlyIncreasingFrames

C3_Witness ==
  /\ pc = "done"
  /\ pause_frames > 0
  /\ move_frames > 0
  /\ Len(spheres) = 3
  /\ Len(keyframes) = 6

\* C4: the first item is at x = 0, every later item at
\* x_i = x_{i-1} + 2*scale_{i-1} + scale_i, one placement per dataset entry
\* in dataset order, x strictly increasing; {10, 20, 5} gives x = 0, 4, 8.5.
C4_LayoutRecurrence ==
  /\ \A j \in 1..Len(spheres) :
       /\ spheres[j].name = j
       /\ j = 1 => spheres[j].location[1] = <<0, 1>>
       /\ j > 1 =>
            /\ spheres[j].location[1] =
                 RAdd(spheres[j - 1].location[1],
                      RAdd(RMul(<<2, 1>>, spheres[j - 1].scale), spheres[j].scale))
            /\ RLt(spheres[j - 1].location[1], spheres[j].location[1])
  /\ AfterLoop => Len(spheres) = Len(DATA)
  /\ (DATA = <<10, 20, 5>> /\ AfterLoop) =>
       /\ spheres[1].location[1] = <<0, 1>>
       /\ spheres[2].location[1] = <<4, 1>>
       /\ spheres[3].location[1] = <<17, 2>>

C4_Witness ==
  /\ pc = "done"
  /\ DATA = <<10, 20, 5>>
  /\ spheres[3].location[1] = <<17, 2>>

\* C5: no two spheres overlap: for any placements i < j,
\* x_j - x_i >= scale_i + scale_j.
C5_NoOverlap ==
  \A a \in 1..Len(spheres) : \A b \in 1..Len(spheres) :
    a < b =>
      RLeq(RAdd(spheres[a].scale, spheres[b].scale),
           RSub(spheres[b].location[1], spheres[a].location[1]))

C5_Witness ==
  /\ pc = "done"
  /\ Len(spheres) = 3
  /\ spheres[1].scale # spheres[3].scale
  /\ RLt(spheres[2].scale, spheres[1].scale)

\* C6: one scale per item in dataset order, scale = value/max_value*SCALE_FACTOR;
\* the item with the maximum value has scale exactly SCALE_FACTOR and every
\* scale lies in (0, SCALE_FACTOR].
C6_Scales ==
  /\ \A j \in 1..Len(spheres) :
       LET m == CHOOSE v \in {DATA[q] : q \in DOMAIN DATA} :
                  \A q \in DOMAIN DATA : DATA[q] <= v
       IN  /\ spheres[j].name = j
           /\ spheres[j].scale = Rat(DATA[j] * SCALE_FACTOR, m)
           /\ DATA[j] = m => spheres[j].scale = <<SCALE_FACTOR, 1>>
           /\ RLt(<<0, 1>>, spheres[j].scale)
           /\ RLeq(spheres[j].scale, <<SCALE_FACTOR, 1>>)
  /\ AfterLoop => Len(spheres) = Len(DATA)

C6_Witness ==
  /\ pc = "done"
  /\ DATA = <<10, 20, 5>>
  /\ spheres[1].scale = <<1, 1>>
  /\ spheres[2].scale = <<2, 1>>
  /\ spheres[3].scale = <<1, 2>>

\* C7: the k-th placement gets exactly two keyframes, at f_k and
\* f_k + pause_frames with f_1 = 1 and f_{k+1} = f_k + pause_frames + move_frames,
\* both recording the camera position (x_k, -10*scale_k, 1.3*scale_k).
C7_HoldKeyframes ==
  /\ \A j \in 1..Len(keyframes) :
       LET kk == (j + 1) \div 2
           f == 1 + (kk - 1) * (pause_frames + move_frames)
       IN  /\ kk <= Len(spheres)
           /\ keyframes[j].frame = IF j % 2 = 1 THEN f ELSE f + pause_frames
           /\ keyframes[j].location =
                <<spheres[kk].location[1],
                  RMul(<<-10, 1>>, spheres[kk].scale),
                  RMul(<<13, 10>>, spheres[kk].scale)>>
  /\ pc \in {"interpolation", "done"} => Len(keyframes) = 2 * Len(spheres)

C7_Witness ==
  /\ pc = "done"
  /\ Len(keyframes) = 6
  /\ keyframes[3].location = keyframes[4].location
  /\ keyframes[3].location # keyframes[2].location

\* C8: with an empty dataset the run fails at the computation of the maximum
\* value and nothing is created: no sphere, label, camera, light, background
\* plane or keyframe, and the scene's final frame is not set.
C8_EmptyDatasetFails ==
  DATA = <<>> =>
    /\ pc \in {"clear", "max", "failed"}
    /\ pc = "failed" => error = "ValueError"
    /\ max_value = 0
    /\ NothingCreated

C8_Witness ==
  /\ DATA = <<>>
  /\ pc = "failed"
  /\ cleared

\* C9: animate_camera called with an empty sequence fails, and on that
\* failure it has inserted no keyframe and has not changed the scene's final
\* frame.
C9_EmptyTimelineFails ==
  (spheres = <<>> /\ pc \in {"interpolation", "done", "failed"}) =>
    /\ pc = "failed"
    /\ keyframes = <<>>
    /\ ~frame_end_set

RigAfterSpheres ==
  ((\E j \in 1..Len(objects) : IsRigObject(objects[j])) \/ keyframes # <<>>) =>
    /\ Len(spheres) = Len(DATA)
    /\ Len(SelectSeq(objects, IsSphereObject)) = Len(DATA)

====
